---- MODULE Spec2Model ----
(***************************************************************************)
(* Provisioning Job Orchestrator of erpmax-orchestrator.                   *)
(*                                                                         *)
(* The model has three shared stores: the provisioning_jobs table (jobs),  *)
(* the tenants table (tenant_status) and the durable RabbitMQ queue        *)
(* (queue = ready messages, worker[w].msg = unacknowledged deliveries).    *)
(* The Dispatcher operations (ProvisioningService.create_job, retry_job,   *)
(* cancel_job behind the API handlers) are request handlers and are each   *)
(* one action.  The worker (_handle_message / _process_job) is one action  *)
(* per database round trip: between two of them another worker or a        *)
(* Dispatcher request may commit.                                          *)
(*                                                                         *)
(* A worker holds its job and tenant as SQLAlchemy ORM objects.  The unit  *)
(* of work of the session writes, at commit, exactly the columns whose     *)
(* value differs from the value the session loaded or last committed       *)
(* (UPDATE ... SET <changed columns> WHERE id = ...): it neither re-reads  *)
(* the row nor checks a version.  old is that loaded state, job the        *)
(* object as the worker has assigned it.                                   *)
(***************************************************************************)
EXTENDS Integers, Sequences, FiniteSets, TLC

\* ---------------------------------------------------------------- bounds
\* the number of external events (Dispatcher requests, worker crashes, stray
\* messages) in a behaviour
MaxEvents == 3

\* the ids uuid4 gives to the jobs, in the order of their creation
JobIds == {1, 2}
\* message bodies that are no dispatch message: not JSON, JSON without
\* "job_id", JSON whose "job_id" is not a UUID
NOT_JSON == -2
NO_JOB_ID == -3
NOT_UUID == -4
Malformed == {NOT_JSON, NO_JOB_ID, NOT_UUID}
\* the message bodies: {"job_id": j} is written j, and 0 is the id of no
\* stored job
Bodies == {0} \cup JobIds \cup Malformed

\* the message handlers that run concurrently (prefetch_count allows 10 per
\* worker process; worker processes may be many)
Workers == {1, 2}
Tenants == {"t1", "t2"}
\* str(e) of the exceptions the unit of work raises
ErrDetails == {"boom"}

\* ------------------------------------------------------------ enumerations
NONE == "None"
UTCNOW == "utcnow"

PENDING == "pending"
RUNNING == "running"
COMPLETED == "completed"
FAILED == "failed"
JobStatus == {PENDING, RUNNING, COMPLETED, FAILED}

CREATE_SITE == "create_site"
DELETE_SITE == "delete_site"
BACKUP_SITE == "backup_site"
JobType == {CREATE_SITE, DELETE_SITE, BACKUP_SITE}

TENANT_PROVISIONING == "provisioning"
TENANT_ACTIVE == "active"

CANCELLED_ERROR == "Cancelled by user"

VARIABLES
    jobs,           \* the provisioning_jobs table: a sequence, job id = index
    tenant_status,  \* tenants.status, per tenant
    queue,          \* ready messages of the provisioning queue, per body
    worker,         \* per message handler: position, delivery, session objects
    resp,           \* the response to the last Dispatcher request
    nevents,        \* the number of Dispatcher requests and crashes so far
    cancelled,      \* history: the status the last CancelJob since the last
                    \* RetryJob found, per job ("no" when there was none)
    sso             \* the SSO service: the token keys in Redis and the calls
                    \* of validate_token under way

vars == <<jobs, tenant_status, queue, worker, resp, nevents, cancelled, sso>>

\* ------------------------------------------------------------ job records
ProvisioningJob(tenant_id, job_type) ==
    [tenant_id |-> tenant_id, job_type |-> job_type, status |-> PENDING,
     progress |-> 0, message |-> "Queued", error |-> NONE,
     started_at |-> NONE, completed_at |-> NONE]

NoRow == [status |-> "none"]

Exists(j) == j \in 1..Len(jobs)

\* The flush of a session at commit: the columns whose value the session
\* changed (a timestamp assigned datetime.utcnow() is always a new value) are
\* written over the stored row, the others are left as stored.
Flush(row, old, new, stamped) ==
    [f \in DOMAIN row |->
        IF f \in stamped \/ new[f] # old[f] THEN new[f] ELSE row[f]]

FlushTenant(stored, old, new) == IF new # old THEN new ELSE stored

\* The session objects after a commit (expire_on_commit=False): they keep
\* the attribute values the worker assigned.
AfterCommit(obj) == obj

\* msg: the body of the unacknowledged delivery the handler holds, -1 for none;
\* seen, t_seen: the job status and the tenant status the handler found when
\* it loaded them
Idle == [pc |-> "idle", msg |-> -1, old |-> NoRow, job |-> NoRow,
         t_old |-> NONE, tenant |-> NONE, seen |-> NONE, t_seen |-> NONE,
         result |-> NONE]

NoResponse == [result |-> NONE, data |-> <<>>]

\* ------------------------------------------------------------ SSO tokens
Tokens == {"tok1", "tok2"}
Users == {"u1", "u2"}
Validators == {1, 2}

\* hgetall of a key that does not exist: the empty mapping
NoTokenData == <<>>

INVALID_TOKEN == "Invalid or expired SSO token"

\* a call of validate_token: its position, its argument, what hgetall
\* returned to it and how it ended
NoCall == [pc |-> "idle", token |-> NONE, token_data |-> NoTokenData,
           result |-> NONE]

\* redis: the hash stored under sso:token:<token>, per token; issued: the
\* tokens generate_erpnext_token returned; succeeded: history, the number of
\* validate_token calls that returned for the token; ncalls: the number of
\* calls of the service so far
SsoInit ==
    [redis |-> [k \in Tokens |-> NoTokenData], issued |-> {},
     call |-> [v \in Validators |-> NoCall],
     succeeded |-> [k \in Tokens |-> 0], ncalls |-> 0]

Init ==
    /\ jobs = <<>>
    /\ tenant_status = [t \in Tenants |-> TENANT_PROVISIONING]
    /\ queue = [b \in Bodies |-> 0]
    /\ worker = [w \in Workers |-> Idle]
    /\ resp = NoResponse
    /\ nevents = 0
    /\ cancelled = [j \in JobIds |-> "no"]
    /\ sso = SsoInit

Event == nevents < MaxEvents /\ nevents' = nevents + 1

\* a Dispatcher request ends with a result, "ok" or the error raised, and a
\* read request that succeeds returns job records in data
Respond(result) == resp' = [result |-> result, data |-> <<>>] /\ Event

\* mutant of publish_json: the message is published twice
publish_json_Twice(j) == queue' = [queue EXCEPT ![j] = @ + 2]

\* publish_json: one message {"job_id": j} to the provisioning queue
publish_json(j) == queue' = [queue EXCEPT ![j] = @ + 1]

\* ------------------------------------------------------------ Dispatcher
\* mutant of create_job: a failed publish takes the inserted row back
create_job_RollsBack(t, jt, published) ==
    /\ Len(jobs) < Cardinality(JobIds)
    /\ IF published
         THEN /\ jobs' = Append(jobs, ProvisioningJob(t, jt))
              /\ publish_json(Len(jobs) + 1) /\ Respond("ok")
         ELSE UNCHANGED <<jobs, queue>> /\ Respond("TransportError")
    /\ UNCHANGED <<tenant_status, worker, cancelled, sso>>

create_job(t, jt, published) ==
    /\ Len(jobs) < Cardinality(JobIds)
    /\ jobs' = Append(jobs, ProvisioningJob(t, jt))
    /\ IF published
         THEN publish_json(Len(jobs) + 1) /\ Respond("ok")
         ELSE UNCHANGED queue /\ Respond("TransportError")
    /\ UNCHANGED <<tenant_status, worker, cancelled, sso>>

\* mutant of RetryReset: the reset forgets to clear the error
RetryReset_KeepsError(job) ==
    [job EXCEPT !.status = PENDING, !.progress = 0, !.message = "Queued",
                !.started_at = NONE, !.completed_at = NONE]

RetryReset(job) ==
    [job EXCEPT !.status = PENDING, !.progress = 0, !.message = "Queued",
                !.error = NONE, !.started_at = NONE, !.completed_at = NONE]

\* mutant of OwnedBy: the handler takes every job as the caller's
OwnedBy_Any(job, ct) == TRUE

\* the tenant check of the get, retry and cancel handlers
OwnedBy(job, ct) == job.tenant_id = ct

\* The retry handler: service.get_job raises NotFoundError for an unknown id;
\* for a job of another tenant the handler raises HTTPException(404, "Job not
\* found") inside its own try, where "except Exception" turns it into the
\* 500 response "Failed to retry provisioning job".
retry_job(ct, j, published) ==
    /\ IF ~Exists(j)
         THEN Respond("NotFound") /\ UNCHANGED <<jobs, queue, cancelled>>
         ELSE IF ~OwnedBy(jobs[j], ct)
         THEN Respond("JobNotFound") /\ UNCHANGED <<jobs, queue, cancelled>>
         ELSE IF jobs[j].status \notin {FAILED, COMPLETED}
         THEN Respond("ValidationError") /\ UNCHANGED <<jobs, queue, cancelled>>
         ELSE /\ jobs' = [jobs EXCEPT ![j] = RetryReset(@)]
              /\ cancelled' = [cancelled EXCEPT ![j] = "no"]
              /\ IF published
                   THEN publish_json(j) /\ Respond("ok")
                   ELSE UNCHANGED queue /\ Respond("TransportError")
    /\ UNCHANGED <<tenant_status, worker, sso>>

\* mutant of CancelWrite: the cancel forgets to reset the progress
CancelWrite_KeepsProgress(job) ==
    [job EXCEPT !.status = FAILED, !.error = CANCELLED_ERROR,
                !.message = "Cancelled"]

CancelWrite(job) ==
    [job EXCEPT !.status = FAILED, !.error = CANCELLED_ERROR,
                !.message = "Cancelled", !.progress = 0]

cancel_job(ct, j) ==
    /\ IF ~Exists(j)
         THEN Respond("NotFound") /\ UNCHANGED <<jobs, cancelled>>
         ELSE IF ~OwnedBy(jobs[j], ct)
         THEN Respond("JobNotFound") /\ UNCHANGED <<jobs, cancelled>>
         ELSE IF jobs[j].status \in {COMPLETED, FAILED}
         THEN Respond("ok") /\ UNCHANGED <<jobs, cancelled>>
         ELSE /\ jobs' = [jobs EXCEPT ![j] = CancelWrite(@)]
              /\ cancelled' = [cancelled EXCEPT ![j] = jobs[j].status]
              /\ Respond("ok")
    /\ UNCHANGED <<tenant_status, queue, worker, sso>>

\* ------------------------------------------------------------ Worker
\* queue.consume(_handle_message): the broker hands a ready message to a
\* handler; it stays unacknowledged while the handler runs.  The handlers are
\* interchangeable: the message goes to the first idle one.
Receive(w, j) ==
    /\ worker[w].pc = "idle"
    /\ \A v \in Workers : v < w => worker[v].pc # "idle"
    /\ queue[j] > 0
    /\ queue' = [queue EXCEPT ![j] = @ - 1]
    /\ worker' = [worker EXCEPT ![w] = [Idle EXCEPT !.pc = "get_job", !.msg = j]]
    /\ UNCHANGED <<jobs, tenant_status, resp, nevents, cancelled, sso>>

\* mutant of Accepts: the guard lets a COMPLETED job through as well
Accepts_AlsoCompleted(status) == status \in {PENDING, FAILED, COMPLETED}

\* mutant of Accepts: the guard lets a RUNNING job through as well
Accepts_AlsoRunning(status) == status \in {PENDING, FAILED, RUNNING}

\* mutant of Accepts: the guard lets only a FAILED job through
Accepts_OnlyFailed(status) == status = FAILED

Accepts(status) == status \in {PENDING, FAILED}

StartJob(job) ==
    [job EXCEPT !.status = RUNNING, !.started_at = UTCNOW, !.progress = 10,
                !.message = "Started", !.error = NONE]

\* mutant of job_id_of: a body without a usable job id is taken as job 1
job_id_of_Default(body) == IF body \in Malformed THEN 1 ELSE body

\* _handle_message, lines 95-110: json.loads, payload.get("job_id") and UUID()
\* give the job id of the body, or the handler returns (-1: no job id)
job_id_of(body) == IF body \in Malformed THEN -1 ELSE body

\* lines 95-110, then lines 28-41: the job id of the body, the load of the
\* job, the guard, the assignments of the RUNNING state
GetJob(w) ==
    /\ worker[w].pc = "get_job"
    /\ LET j == job_id_of(worker[w].msg) IN
       IF j = -1
         THEN worker' = [worker EXCEPT ![w].pc = "ack", ![w].result = "invalid"]
         ELSE IF ~Exists(j)
         THEN worker' = [worker EXCEPT ![w].pc = "ack", ![w].result = "not_found"]
         ELSE IF ~Accepts(jobs[j].status)
         THEN worker' = [worker EXCEPT ![w].pc = "ack", ![w].result = "skipped",
                                       ![w].seen = jobs[j].status]
         ELSE worker' = [worker EXCEPT ![w].pc = "get_tenant",
                                       ![w].seen = jobs[j].status,
                                       ![w].old = jobs[j],
                                       ![w].job = StartJob(jobs[j])]
    /\ UNCHANGED <<jobs, tenant_status, queue, resp, nevents, cancelled, sso>>

TenantOnStart(job_type, status) ==
    IF job_type = CREATE_SITE THEN TENANT_PROVISIONING ELSE status

\* lines 43-45: load the tenant, assign PROVISIONING for CREATE_SITE
GetTenant(w) ==
    /\ worker[w].pc = "get_tenant"
    /\ LET t == worker[w].job.tenant_id IN
       worker' = [worker EXCEPT ![w].pc = "commit_running",
                     ![w].t_old = tenant_status[t],
                     ![w].t_seen = tenant_status[t],
                     ![w].tenant = TenantOnStart(worker[w].job.job_type,
                                                 tenant_status[t])]
    /\ UNCHANGED <<jobs, tenant_status, queue, resp, nevents, cancelled, sso>>

\* A commit of the worker's session: job and tenant are flushed together.
Commit(w, new_job, new_tenant, stamped, pc, result) ==
    LET j == worker[w].msg
        t == worker[w].job.tenant_id IN
    /\ jobs' = [jobs EXCEPT ![j] = Flush(@, worker[w].old, new_job, stamped)]
    /\ tenant_status' = [tenant_status EXCEPT
            ![t] = FlushTenant(@, worker[w].t_old, new_tenant)]
    /\ worker' = [worker EXCEPT ![w].pc = pc, ![w].result = result,
                     ![w].old = AfterCommit(new_job),
                     ![w].job = AfterCommit(new_job),
                     ![w].t_old = AfterCommit(new_tenant),
                     ![w].tenant = AfterCommit(new_tenant)]

\* line 47
CommitRunning(w) ==
    /\ worker[w].pc = "commit_running"
    /\ Commit(w, worker[w].job, worker[w].tenant, {"started_at"}, "sleep1", NONE)
    /\ UNCHANGED <<queue, resp, nevents, cancelled, sso>>

\* str(e) of the exception sio.emit raises when an event cannot be sent
SioError == "emit error"

\* mutant of emit_to_tenant: the exception of sio.emit is not caught
emit_to_tenant_Raises(delivered) == IF delivered THEN "returned" ELSE "raised"

\* emit_to_tenant: sio.emit sends the event or raises; the exception is logged
\* and swallowed, so the call returns to the handler either way.
emit_to_tenant(delivered) == "returned"

\* mutant of Rejected: the rejected delivery goes back to the queue
Rejected_Requeues(w) ==
    /\ worker' = [worker EXCEPT ![w] = Idle]
    /\ queue' = [queue EXCEPT ![worker[w].msg] = @ + 1]
    /\ UNCHANGED <<jobs, tenant_status, resp, nevents, cancelled, sso>>

\* An exception leaves _process_job: the session is closed without a commit
\* and message.process(requeue=False) rejects the delivery, which is dropped.
Rejected(w) ==
    /\ worker' = [worker EXCEPT ![w] = Idle]
    /\ UNCHANGED <<jobs, tenant_status, queue, resp, nevents, cancelled, sso>>

\* mutant of ProgressJob: the checkpoint stores another progress value
ProgressJob_Half(job) == [job EXCEPT !.progress = 50, !.message = "Processing"]

ProgressJob(job) == [job EXCEPT !.progress = 70, !.message = "Processing"]

\* lines 50-57: emit "running" (outside the try block), first part of the
\* work, the checkpoint commit
Progress(w, delivered) ==
    /\ worker[w].pc = "sleep1"
    /\ IF emit_to_tenant(delivered) = "returned"
         THEN /\ Commit(w, ProgressJob(worker[w].job), worker[w].tenant, {},
                        "sleep2", NONE)
              /\ UNCHANGED <<queue, resp, nevents, cancelled, sso>>
         ELSE Rejected(w)

\* mutant of CompleteJob: the completion forgets the status
CompleteJob_KeepsStatus(job) ==
    [job EXCEPT !.progress = 100, !.completed_at = UTCNOW,
                !.message = "Completed"]

CompleteJob(job) ==
    [job EXCEPT !.status = COMPLETED, !.progress = 100,
                !.completed_at = UTCNOW, !.message = "Completed"]

\* mutant of TenantOnComplete: the completion activates the tenant for every
\* job type
TenantOnComplete_AnyType(job_type, status) == TENANT_ACTIVE

TenantOnComplete(job_type, status) ==
    IF job_type = CREATE_SITE THEN TENANT_ACTIVE ELSE status

\* mutant of FailJob: the handler records the failure without its detail
FailJob_NoDetail(job, e) ==
    [job EXCEPT !.status = FAILED, !.completed_at = UTCNOW, !.message = "Failed"]

FailJob(job, e) ==
    [job EXCEPT !.status = FAILED, !.completed_at = UTCNOW, !.error = e,
                !.message = "Failed"]

\* lines 60-72: emit progress (inside the try block: an exception of it would
\* be handled as a failure of the work), second part of the work, the
\* COMPLETED commit
Complete(w, delivered) ==
    /\ worker[w].pc = "sleep2"
    /\ IF emit_to_tenant(delivered) = "returned"
         THEN Commit(w, CompleteJob(worker[w].job),
                     TenantOnComplete(worker[w].job.job_type, worker[w].tenant),
                     {"completed_at"}, "ack", "completed")
         ELSE Commit(w, FailJob(worker[w].job, SioError), worker[w].tenant,
                     {"completed_at"}, "ack", "failed")
    /\ UNCHANGED <<queue, resp, nevents, cancelled, sso>>

\* mutant of Fail: the exception handler returns without its commit
Fail_NoCommit(w, e) ==
    /\ worker[w].pc \in {"sleep1", "sleep2"}
    /\ worker' = [worker EXCEPT ![w].pc = "ack", ![w].result = "failed"]
    /\ UNCHANGED <<jobs, tenant_status, queue, resp, nevents, cancelled, sso>>

\* mutant of Fail: the exception handler takes the tenant out of PROVISIONING
Fail_WritesTenant(w, e) ==
    /\ worker[w].pc \in {"sleep1", "sleep2"}
    /\ Commit(w, FailJob(worker[w].job, e),
              TenantOnComplete(worker[w].job.job_type, worker[w].tenant),
              {"completed_at"}, "ack", "failed")
    /\ UNCHANGED <<queue, resp, nevents, cancelled, sso>>

\* lines 81-86: the unit of work raises e at either part; the handler commits
Fail(w, e) ==
    /\ worker[w].pc \in {"sleep1", "sleep2"}
    /\ Commit(w, FailJob(worker[w].job, e), worker[w].tenant,
              {"completed_at"}, "ack", "failed")
    /\ UNCHANGED <<queue, resp, nevents, cancelled, sso>>

\* lines 76-79 or 90, then line 94: after a terminal commit the final event is
\* emitted (the completed event inside the try block, the failed event inside
\* the except block); _process_job returns and message.process() exits
\* without exception: basic.ack
Ack(w, delivered) ==
    /\ worker[w].pc = "ack"
    /\ IF worker[w].result \in {"completed", "failed"}
            /\ emit_to_tenant(delivered) = "raised"
         THEN IF worker[w].result = "completed"
                THEN /\ Commit(w, FailJob(worker[w].job, SioError),
                               worker[w].tenant, {"completed_at"}, "ack", "failed")
                     /\ UNCHANGED <<queue, resp, nevents, cancelled, sso>>
                ELSE Rejected(w)
         ELSE /\ worker' = [worker EXCEPT ![w] = Idle]
              /\ UNCHANGED <<jobs, tenant_status, queue, resp, nevents,
                             cancelled, sso>>

\* mutant of Crash: the delivery was acknowledged on receipt (no_ack), so a
\* crash loses it
Crash_DropsMessage(w) ==
    /\ worker[w].pc # "idle"
    /\ Event
    /\ worker' = [worker EXCEPT ![w] = Idle]
    /\ UNCHANGED <<jobs, tenant_status, queue, resp, cancelled, sso>>

\* The worker process dies: the broker requeues the unacknowledged delivery.
Crash(w) ==
    /\ worker[w].pc # "idle"
    /\ Event
    /\ queue' = [queue EXCEPT ![worker[w].msg] = @ + 1]
    /\ worker' = [worker EXCEPT ![w] = Idle]
    /\ UNCHANGED <<jobs, tenant_status, resp, cancelled, sso>>

\* A message whose job id has no row reaches the queue (the row was deleted
\* with its tenant, or another producer published it).
Stray ==
    /\ Event
    /\ queue' = [queue EXCEPT ![0] = @ + 1]
    /\ UNCHANGED <<jobs, tenant_status, worker, resp, cancelled, sso>>

\* A body that is no dispatch message reaches the queue: the queue is a
\* durable queue of the broker's default exchange, open to every producer.
Foreign(b) ==
    /\ Event
    /\ queue' = [queue EXCEPT ![b] = @ + 1]
    /\ UNCHANGED <<jobs, tenant_status, worker, resp, cancelled, sso>>

\* The tenants whose members send the next CreateJob.  The tenants are
\* interchangeable (they start alike and no operation tells them apart), so
\* the first job is taken to be created for the first of them.
Creators == IF jobs = <<>> THEN {"t1"} ELSE Tenants

Next ==
    \/ \E t \in Creators, jt \in JobType, p \in BOOLEAN : create_job(t, jt, p)
    \/ \E t \in Tenants, j \in JobIds, p \in BOOLEAN : retry_job(t, j, p)
    \/ \E t \in Tenants, j \in JobIds : cancel_job(t, j)
    \/ \E w \in Workers, j \in Bodies : Receive(w, j)
    \/ \E w \in Workers : GetJob(w)
    \/ \E w \in Workers : GetTenant(w)
    \/ \E w \in Workers : CommitRunning(w)
    \/ \E w \in Workers, delivered \in BOOLEAN : Progress(w, delivered)
    \/ \E w \in Workers, delivered \in BOOLEAN : Complete(w, delivered)
    \/ \E w \in Workers, e \in ErrDetails : Fail(w, e)
    \/ \E w \in Workers, delivered \in BOOLEAN : Ack(w, delivered)
    \/ \E w \in Workers : Crash(w)
    \/ Stray

Spec == Init /\ [][Next]_vars

\* ================================================================ claims
Executing == {"sleep1", "sleep2"}
JobRange == 1..Len(jobs)
\* w leaves the guard of _process_job in this step (not by a crash)
GuardStep(w) ==
    worker[w].pc = "get_job" /\ worker'[w].pc \in {"ack", "get_tenant"}
\* w, having decided to skip, leaves the handler in this step
SkipExit(w) ==
    worker[w].pc = "ack" /\ worker[w].result = "skipped" /\ worker'[w].pc = "idle"
\* a delivery for a job stored with a status in S is skipped and changes nothing
NoOpDelivery(S) ==
    \A w \in Workers :
        /\ (GuardStep(w) /\ Exists(worker[w].msg)
              /\ jobs[worker[w].msg].status \in S)
           => /\ worker'[w].pc = "ack" /\ worker'[w].result = "skipped"
              /\ jobs' = jobs /\ tenant_status' = tenant_status
        /\ SkipExit(w) => jobs' = jobs /\ tenant_status' = tenant_status

C2_SingleExecution ==
    \A w1, w2 \in Workers :
        (w1 # w2 /\ worker[w1].msg = worker[w2].msg
            /\ worker[w1].seen = PENDING /\ worker[w2].seen = PENDING)
        => ~(worker[w1].pc \in Executing /\ worker[w2].pc \in Executing)

\* C3: every stored job has status FAILED exactly when its error is set.
C3_FailedIffError ==
    \A j \in JobRange : (jobs[j].status = FAILED) <=> (jobs[j].error # NONE)

\* C4: a delivery is acknowledged only after its handler committed COMPLETED
\* or FAILED for the job or decided to skip it (no row, or a status the guard
\* refuses); while the handler is at work the delivery stays unacknowledged,
\* and the commit that precedes the acknowledgement stores a terminal status.
C4_AckAfterTerminalOrSkip ==
    [][\A w \in Workers :
        /\ (worker[w].msg # -1 /\ worker'[w].msg = -1 /\ nevents' = nevents)
           => \/ worker[w].result = "not_found" /\ ~Exists(worker[w].msg)
              \/ worker[w].result = "skipped"
                   /\ worker[w].seen \in {RUNNING, COMPLETED}
              \/ worker[w].result \in {"completed", "failed"}
                   /\ worker[w].old.status \in {COMPLETED, FAILED}
        /\ (worker[w].pc \in Executing /\ worker'[w].pc = "ack")
           => jobs'[worker[w].msg].status \in {COMPLETED, FAILED}
        /\ (worker[w].pc \notin {"idle", "ack"} /\ worker'[w].msg = -1)
           => nevents' # nevents
      ]_vars

\* C4 witness: a handler has committed COMPLETED and is about to acknowledge.
C4_Witness ==
    \E w \in Workers :
        /\ worker[w].pc = "ack" /\ worker[w].result = "completed"
        /\ jobs[worker[w].msg].status = COMPLETED

\* C5: a job cancelled while RUNNING stays FAILED with error "Cancelled by
\* user" and progress 0 until it is retried, whatever its worker writes later.
C5_CancelNotOverwritten ==
    \A j \in JobRange :
        cancelled[j] = RUNNING
        => /\ jobs[j].status = FAILED
           /\ jobs[j].error = CANCELLED_ERROR
           /\ jobs[j].progress = 0

\* C6: after CancelJob on a PENDING job and until a RetryJob, no handler that
\* loads the job afterwards (and so finds it FAILED) moves it to RUNNING.
C6_CancelledPendingNeverRuns ==
    \A j \in JobRange :
        cancelled[j] = PENDING
        => ~\E w \in Workers :
              /\ worker[w].msg = j /\ worker[w].seen = FAILED
              /\ worker[w].pc \in Executing
              /\ jobs[j].status = RUNNING

C9_StatusOrder ==
    [][\A j \in JobRange :
        /\ jobs[j].status = COMPLETED
           => jobs'[j].status \in {COMPLETED, PENDING}
        /\ (nevents' = nevents /\ jobs'[j].status = PENDING)
           => jobs[j].status = PENDING
      ]_vars

\* C10: for a CREATE_SITE job, the tenant is PROVISIONING once the commit that
\* moves the job to RUNNING is done, and ACTIVE once the commit that moves it
\* to COMPLETED is done.
C10_TenantFollowsJob ==
    [][\A w \in Workers :
        LET t == worker[w].job.tenant_id IN
        (worker[w].pc \in {"commit_running", "sleep2"}
            /\ worker[w].job.job_type = CREATE_SITE)
        => /\ (worker'[w].pc = "sleep1") => tenant_status'[t] = TENANT_PROVISIONING
           /\ (worker'[w].pc = "ack" /\ worker'[w].result = "completed")
              => tenant_status'[t] = TENANT_ACTIVE
      ]_vars

\* ------------------------------------------------------------ scheduling
\* The steps of the handler w (the event loop runs every coroutine that is
\* ready; a database round trip returns).
HandlerStep(w) ==
    \/ GetJob(w) \/ GetTenant(w) \/ CommitRunning(w)
    \/ \E delivered \in BOOLEAN :
          Progress(w, delivered) \/ Complete(w, delivered) \/ Ack(w, delivered)

\* The orchestrator when the Dispatcher only creates jobs: the broker, the
\* handlers and their crashes.  The broker delivers a ready message when a
\* consumer has room for it, and every handler that is not killed goes on to
\* its next step.  Nothing forces a Dispatcher request, a crash or an
\* exception of the unit of work.
NextRedelivery ==
    \/ \E t \in Creators, jt \in JobType, p \in BOOLEAN : create_job(t, jt, p)
    \/ \E w \in Workers, j \in Bodies : Receive(w, j)
    \/ \E w \in Workers : HandlerStep(w)
    \/ \E w \in Workers, e \in ErrDetails : Fail(w, e)
    \/ \E w \in Workers : Crash(w)
    \/ Stray

RedeliverySpec ==
    /\ Init /\ [][NextRedelivery]_vars
    /\ \A b \in Bodies : WF_vars(\E w \in Workers : Receive(w, b))
    /\ \A w \in Workers : WF_vars(HandlerStep(w))

\* the dispatch messages with body b that exist: ready or unacknowledged
InFlight(b) == queue[b] + Cardinality({w \in Workers : worker[w].msg = b})

\* the handler w dies in this step
CrashStep(w) ==
    worker[w].pc # "idle" /\ worker'[w].pc = "idle" /\ nevents' # nevents

\* C11: while a handler holds a delivery it is unacknowledged; when the
\* handler crashes, at any point before the acknowledgement, the message is
\* ready in the queue again; the number of messages of a body (ready or
\* unacknowledged) goes down only by the acknowledgement of a handler that
\* reached the end of its processing; and again and again no message is left
\* waiting in the queue: every ready message, a requeued one included, is
\* delivered to a handler.
C11_CrashRedelivers ==
    /\ [][\A w \in Workers :
            /\ CrashStep(w)
               => /\ queue'[worker[w].msg] = queue[worker[w].msg] + 1
                  /\ \A b \in Bodies : InFlight(b)' = InFlight(b)
            /\ \A b \in Bodies :
                  InFlight(b)' < InFlight(b)
                  => \E v \in Workers :
                        /\ worker[v].pc = "ack" /\ worker[v].msg = b
                        /\ worker'[v].pc = "idle" /\ nevents' = nevents
         ]_vars
    /\ []<>(\A b \in Bodies : queue[b] = 0)

\* C11 witness: the only message of the only job is held by a handler that is
\* about to load the job, and the job is already RUNNING: the handler that
\* committed RUNNING crashed and the message was delivered again.
C11_Witness ==
    /\ Len(jobs) = 1 /\ nevents = 2
    /\ jobs[1].status = RUNNING
    /\ InFlight(1) = 1
    /\ \E w \in Workers :
          /\ worker[w].pc = "get_job" /\ worker[w].msg = 1
          /\ \A v \in Workers : v # w => worker[v].pc = "idle"

\* C12: an exception e of the unit of work, raised after the RUNNING commit, is
\* caught in the handler: the step stores FAILED, error = str(e), message
\* "Failed" and the completion time, and keeps the delivery unacknowledged
\* until then; the handler's next step acknowledges the message (it is not put
\* back in the queue) and leaves the handler idle, ready for the next delivery.
C12_ExceptionCaught ==
    [][\A w \in Workers :
        LET j == worker[w].msg IN
        /\ \A e \in ErrDetails :
              Fail(w, e)
              => /\ jobs'[j].status = FAILED /\ jobs'[j].error = e
                 /\ jobs'[j].message = "Failed"
                 /\ jobs'[j].completed_at = UTCNOW
                 /\ worker'[w].pc = "ack" /\ worker'[w].msg = j
                 /\ queue' = queue
        /\ (worker[w].pc = "ack" /\ worker[w].result = "failed"
               /\ worker'[w] # worker[w] /\ nevents' = nevents)
           => /\ worker'[w] = Idle
              /\ \A b \in Bodies :
                    InFlight(b)' = IF b = j THEN InFlight(b) - 1 ELSE InFlight(b)
              /\ queue' = queue
              /\ jobs' = jobs
      ]_vars

\* C12 witness: the unit of work of the only job raised "boom"; the job is
\* stored FAILED with that detail, its message is acknowledged and every
\* handler is idle again.
C12_Witness ==
    /\ Len(jobs) = 1 /\ nevents = 1
    /\ jobs[1].status = FAILED /\ jobs[1].error = "boom"
    /\ jobs[1].message = "Failed" /\ jobs[1].completed_at = UTCNOW
    /\ InFlight(1) = 0
    /\ \A w \in Workers : worker[w] = Idle

\* C13: when the execution of a CREATE_SITE job fails, the step that handles
\* the failure stores status FAILED, an error and a completion time for the
\* job and writes no tenant status: every tenant has the status it had before
\* the step (PROVISIONING, where the start of the run stored it).
C13_FailureKeepsTenant ==
    [][\A w \in Workers, e \in ErrDetails :
        (Fail(w, e) /\ worker[w].job.job_type = CREATE_SITE)
        => /\ jobs'[worker[w].msg].status = FAILED
           /\ jobs'[worker[w].msg].error # NONE
           /\ jobs'[worker[w].msg].completed_at # NONE
           /\ tenant_status' = tenant_status
           /\ worker'[w].tenant = worker[w].tenant
      ]_vars

\* C13 witness: a CREATE_SITE job has just failed; its tenant is PROVISIONING.
C13_Witness ==
    \E w \in Workers :
        /\ worker[w].pc = "ack" /\ worker[w].result = "failed"
        /\ worker[w].job.job_type = CREATE_SITE
        /\ jobs[worker[w].msg].status = FAILED
        /\ jobs[worker[w].msg].error = "boom"
        /\ jobs[worker[w].msg].completed_at = UTCNOW
        /\ tenant_status[worker[w].job.tenant_id] = TENANT_PROVISIONING

\* C14: CreateJob(tenant, job type) appends one job with status PENDING,
\* progress 0, message "Queued", no error, no started_at, no completed_at, and
\* changes no other job; when the publish succeeds, exactly one message, with
\* the id of that job, is added to the provisioning queue and no other message
\* is; and a message never precedes its row: every message that carries a job
\* id, ready or unacknowledged, refers to a stored job.
C14_CreateJob ==
    /\ [][\A t \in Tenants, jt \in JobType, p \in BOOLEAN :
            create_job(t, jt, p)
            => LET id == Len(jobs) + 1 IN
               /\ jobs' = Append(jobs,
                      [tenant_id |-> t, job_type |-> jt, status |-> PENDING,
                       progress |-> 0, message |-> "Queued", error |-> NONE,
                       started_at |-> NONE, completed_at |-> NONE])
               /\ p => /\ queue'[id] = queue[id] + 1
                       /\ \A b \in Bodies : b # id => queue'[b] = queue[b]
                       /\ resp'.result = "ok"
         ]_vars
    /\ [](\A j \in JobIds : InFlight(j) > 0 => Exists(j))

\* C14 witness: the first CreateJob has been served: job 1 is stored PENDING
\* and its one message waits in the queue.
C14_Witness ==
    /\ nevents = 1 /\ resp.result = "ok" /\ Len(jobs) = 1
    /\ jobs[1] = ProvisioningJob(jobs[1].tenant_id, CREATE_SITE)
    /\ queue = [b \in Bodies |-> IF b = 1 THEN 1 ELSE 0]
    /\ \A w \in Workers : worker[w] = Idle

\* C15: when the publish of CreateJob fails, the request ends with the
\* transport error (a server error for the caller), the job row is stored
\* PENDING all the same and no message is added.  A PENDING job that has no
\* message, ready or unacknowledged, keeps its record and stays without a
\* message in every step except a CancelJob request for it: no step of a
\* handler, no crash and no other request rolls it back or publishes for it.
C15_OrphanedPending ==
    [][/\ \A t \in Tenants, jt \in JobType :
            create_job(t, jt, FALSE)
            => /\ resp'.result = "TransportError"
               /\ jobs' = Append(jobs, ProvisioningJob(t, jt))
               /\ queue' = queue
       /\ \A j \in JobRange :
            (jobs[j].status = PENDING /\ InFlight(j) = 0)
            => \/ jobs'[j] = jobs[j] /\ InFlight(j)' = 0
               \/ cancel_job(jobs[j].tenant_id, j)
      ]_vars

\* C15 witness: the publish for job 1 failed; since then job 2 was created and
\* run to COMPLETED, and job 1 is still PENDING without a message.
C15_Witness ==
    /\ Len(jobs) = 2 /\ nevents = 2
    /\ jobs[1] = ProvisioningJob(jobs[1].tenant_id, jobs[1].job_type)
    /\ InFlight(1) = 0
    /\ jobs[2].status = COMPLETED
    /\ \A w \in Workers : worker[w] = Idle

\* Scenario A: jobs are created and each is processed by the one handler that
\* receives its message; no unit of work fails, no job is cancelled or retried,
\* no handler crashes.  Deliveries and handler steps are not held back for
\* ever.
NextScenario ==
    \/ \E t \in Creators, jt \in JobType, p \in BOOLEAN : create_job(t, jt, p)
    \/ \E w \in Workers, j \in Bodies : Receive(w, j)
    \/ \E w \in Workers : HandlerStep(w)

ScenarioSpec ==
    /\ Init /\ [][NextScenario]_vars
    /\ \A b \in Bodies : WF_vars(\E w \in Workers : Receive(w, b))
    /\ \A w \in Workers : WF_vars(HandlerStep(w))

\* the persisted (status, progress, message) of job j
Triple(j) == <<jobs[j].status, jobs[j].progress, jobs[j].message>>

Queued == <<PENDING, 0, "Queued">>
Started == <<RUNNING, 10, "Started">>
Processing == <<RUNNING, 70, "Processing">>
Completed == <<COMPLETED, 100, "Completed">>

\* j is the only CREATE_SITE job of its tenant
OnlySiteJob(j) ==
    \A k \in JobRange :
        (k # j /\ jobs[k].tenant_id = jobs[j].tenant_id)
        => jobs[k].job_type # CREATE_SITE

\* C16: in scenario A, the persisted (status, progress, message) of a
\* CREATE_SITE job starts as (PENDING, 0, "Queued") and changes only along
\* (PENDING, 0, "Queued") -> (RUNNING, 10, "Started") ->
\* (RUNNING, 70, "Processing") -> (COMPLETED, 100, "Completed"); when it is
\* the only CREATE_SITE job of its tenant, the tenant is PROVISIONING until the
\* step to COMPLETED and ACTIVE from that step on; and a job whose message was
\* published reaches (COMPLETED, 100, "Completed").
C16_ScenarioA ==
    /\ [][/\ \A j \in JobIds :
              (~Exists(j) /\ Exists(j)' /\ jobs'[j].job_type = CREATE_SITE)
              => Triple(j)' = Queued
          /\ \A j \in JobRange :
              jobs[j].job_type = CREATE_SITE
              => /\ Triple(j)' # Triple(j)
                    => <<Triple(j), Triple(j)'>> \in
                         {<<Queued, Started>>, <<Started, Processing>>,
                          <<Processing, Completed>>}
                 /\ OnlySiteJob(j)'
                    => LET t == jobs[j].tenant_id IN
                       /\ tenant_status'[t] =
                            IF Triple(j)' = Completed THEN TENANT_ACTIVE
                                                      ELSE TENANT_PROVISIONING
         ]_vars
    /\ \A j \in JobIds :
          (Exists(j) /\ InFlight(j) > 0)
          ~> (Exists(j) /\ Triple(j) = Completed)

\* C16 witness: the only job, a CREATE_SITE job, has been run to the end: it
\* is (COMPLETED, 100, "Completed") with both times set, its message is
\* acknowledged and its tenant is ACTIVE.
C16_Witness ==
    /\ Len(jobs) = 1 /\ jobs[1].job_type = CREATE_SITE
    /\ Triple(1) = Completed
    /\ jobs[1].started_at = UTCNOW /\ jobs[1].completed_at = UTCNOW
    /\ jobs[1].error = NONE
    /\ tenant_status[jobs[1].tenant_id] = TENANT_ACTIVE
    /\ InFlight(1) = 0
    /\ \A w \in Workers : worker[w] = Idle

\* C17: RetryJob on a job that failed in execution (FAILED with the detail of
\* an exception) stores PENDING, progress 0 and no error and, the publish
\* succeeding, adds one message for the job; a handler that then loads the job
\* PENDING passes the guard and starts it; and the handler's last commit stores
\* COMPLETED with progress 100.  (That such a run ends COMPLETED, 100, without
\* error is the witness below.)
C17_RetryThenComplete ==
    [][/\ \A ct \in Tenants, j \in JobIds :
            (retry_job(ct, j, TRUE) /\ Exists(j) /\ jobs[j].tenant_id = ct
                /\ jobs[j].status = FAILED /\ jobs[j].error \in ErrDetails)
            => /\ jobs'[j].status = PENDING /\ jobs'[j].progress = 0
               /\ jobs'[j].error = NONE
               /\ queue'[j] = queue[j] + 1
       /\ \A w \in Workers :
            /\ (GuardStep(w) /\ Exists(worker[w].msg)
                  /\ jobs[worker[w].msg].status = PENDING)
               => /\ worker'[w].pc = "get_tenant"
                  /\ worker'[w].job.status = RUNNING
            /\ (\E delivered \in BOOLEAN : Complete(w, delivered))
               => /\ jobs'[worker[w].msg].status = COMPLETED
                  /\ jobs'[worker[w].msg].progress = 100
      ]_vars

\* C17 witness: of the two requests served, the first created job 1 and the
\* second retried it.  Handler 1 still holds its result "failed" for job 1 (it
\* has not acknowledged yet); handler 2, which received the message of the
\* retry and loaded the job PENDING, has committed COMPLETED: job 1 is
\* COMPLETED with progress 100 and no error.
C17_Witness ==
    /\ Len(jobs) = 1 /\ nevents = 2
    /\ worker[1].pc = "ack" /\ worker[1].msg = 1 /\ worker[1].result = "failed"
    /\ worker[1].old.error = "boom"
    /\ worker[2].pc = "ack" /\ worker[2].msg = 1
    /\ worker[2].result = "completed" /\ worker[2].seen = PENDING
    /\ jobs[1].status = COMPLETED /\ jobs[1].progress = 100
    /\ jobs[1].error = NONE

\* C18: the progress of every stored job is an integer in [0,100], and a step
\* lowers the persisted progress of a job only when it is the reset of a
\* RetryJob (creation, the other reset, stores a new job): no step of a
\* handler and no CancelJob lowers it.
C18_ProgressMonotone ==
    /\ [](\A j \in JobRange : jobs[j].progress \in 0..100)
    /\ [][\A j \in JobRange :
            jobs'[j].progress < jobs[j].progress
            => /\ nevents' # nevents
               /\ jobs[j].status \in {COMPLETED, FAILED}
               /\ jobs'[j] = RetryReset(jobs[j])
         ]_vars

\* C19: every stored job with status RUNNING has no completed_at, and every
\* stored job with status PENDING has neither started_at nor completed_at.
C19_NoMixedRecord ==
    \A j \in JobRange :
        /\ jobs[j].status = RUNNING => jobs[j].completed_at = NONE
        /\ jobs[j].status = PENDING
           => jobs[j].started_at = NONE /\ jobs[j].completed_at = NONE

\* The orchestrator while the notifier is down: every sio.emit raises.  Jobs
\* are created, delivered and run, the unit of work may raise; no job is
\* cancelled or retried and no handler crashes.  Deliveries and handler steps
\* are not held back for ever.
NotifierDownStep(w) ==
    \/ GetJob(w) \/ GetTenant(w) \/ CommitRunning(w)
    \/ Progress(w, FALSE) \/ Complete(w, FALSE) \/ Ack(w, FALSE)

NextNotifierDown ==
    \/ \E t \in Creators, jt \in JobType, p \in BOOLEAN : create_job(t, jt, p)
    \/ \E w \in Workers, j \in Bodies : Receive(w, j)
    \/ \E w \in Workers : NotifierDownStep(w)
    \/ \E w \in Workers, e \in ErrDetails : Fail(w, e)

NotifierDownSpec ==
    /\ Init /\ [][NextNotifierDown]_vars
    /\ \A b \in Bodies : WF_vars(\E w \in Workers : Receive(w, b))
    /\ \A w \in Workers : WF_vars(NotifierDownStep(w))

\* C20: with every emission failing, each step of a handler is the step it
\* takes when the emission succeeds (the same job record, tenant status,
\* acknowledgement); a job turns FAILED only by an exception of its unit of
\* work; no message is put back in the queue, so nothing is executed again;
\* and every job whose message was published ends COMPLETED or FAILED with its
\* message acknowledged.
C20_EmissionFailureSwallowed ==
    /\ [][/\ \A w \in Workers :
              /\ Progress(w, FALSE) => Progress(w, TRUE)
              /\ Complete(w, FALSE) => Complete(w, TRUE)
              /\ Ack(w, FALSE) => Ack(w, TRUE)
              /\ worker[w].pc = "ack"
                 => worker'[w].pc = "idle" \/ worker'[w] = worker[w]
          /\ \A j \in JobRange :
              (jobs'[j].status = FAILED /\ jobs[j].status # FAILED)
              => \E w \in Workers, e \in ErrDetails : Fail(w, e)
          /\ \A b \in Bodies :
              queue'[b] > queue[b] => nevents' # nevents
         ]_vars
    /\ \A j \in JobIds :
          (Exists(j) /\ InFlight(j) > 0)
          ~> (Exists(j) /\ InFlight(j) = 0
                /\ jobs[j].status \in {COMPLETED, FAILED})

\* C20 witness: with the notifier down, the only job, a CREATE_SITE job, has
\* been run: it is COMPLETED with progress 100 and no error, its tenant is
\* ACTIVE and its message is acknowledged.
C20_Witness ==
    /\ Len(jobs) = 1 /\ nevents = 1
    /\ jobs[1] = CompleteJob(StartJob(ProvisioningJob(jobs[1].tenant_id,
                                                      CREATE_SITE)))
    /\ tenant_status[jobs[1].tenant_id] = TENANT_ACTIVE
    /\ InFlight(1) = 0
    /\ \A w \in Workers : worker[w] = Idle

\* The status event a handler emits next, by its position: "running"/10 after
\* the RUNNING commit (line 50), "running"/70 after the checkpoint commit
\* (line 60), the completed event (line 79) or the failed event (line 90)
\* after the terminal commit.  The values are the literals of the calls; the
\* completed and the failed event carry no progress (-1).
StatusEvent(h) ==
    IF h.pc = "sleep1" THEN [status |-> RUNNING, progress |-> 10]
    ELSE IF h.pc = "sleep2" THEN [status |-> RUNNING, progress |-> 70]
    ELSE IF h.pc = "ack" /\ h.result = "completed"
      THEN [status |-> COMPLETED, progress |-> -1]
    ELSE IF h.pc = "ack" /\ h.result = "failed"
      THEN [status |-> FAILED, progress |-> -1]
    ELSE [status |-> NONE, progress |-> -1]

\* the handler w commits in this step and will emit an event for it
CommitStep(w) ==
    /\ worker[w].pc \in {"commit_running", "sleep1", "sleep2"}
    /\ worker'[w].pc \in {"sleep1", "sleep2", "ack"}
    /\ nevents' = nevents

\* C21: a handler emits a status event only from a position it reaches by a
\* commit, and the commit that precedes the event leaves the job stored with
\* the status and the progress the event reports: no event reports a state
\* that was never stored.
C21_EventAfterCommit ==
    [][\A w \in Workers :
        /\ (StatusEvent(worker'[w]).status # NONE /\ worker'[w] # worker[w])
           => CommitStep(w)
        /\ CommitStep(w)
           => /\ jobs'[worker[w].msg].status = StatusEvent(worker'[w]).status
              /\ StatusEvent(worker'[w]).progress \in
                    {-1, jobs'[worker[w].msg].progress}
      ]_vars

\* The orchestrator with messages that resolve to no job: jobs are created and
\* run, and bodies with the id of no stored job or without a usable id reach
\* the queue.  No handler crashes; deliveries and handler steps are not held
\* back for ever.
NextDrop ==
    \/ \E t \in Creators, jt \in JobType, p \in BOOLEAN : create_job(t, jt, p)
    \/ Stray
    \/ \E b \in Malformed : Foreign(b)
    \/ \E w \in Workers, j \in Bodies : Receive(w, j)
    \/ \E w \in Workers : HandlerStep(w)
    \/ \E w \in Workers, e \in ErrDetails : Fail(w, e)

DropSpec ==
    /\ Init /\ [][NextDrop]_vars
    /\ \A b \in Bodies : WF_vars(\E w \in Workers : Receive(w, b))
    /\ \A w \in Workers : WF_vars(HandlerStep(w))

\* the bodies that resolve to no job
NoJobBodies == {0} \cup Malformed

C23_TenantWrittenBySiteJobOnly ==
    [][\A t \in Tenants :
        tenant_status'[t] # tenant_status[t]
        => /\ nevents' = nevents
           /\ \E w \in Workers :
                /\ worker[w].pc \in {"commit_running", "sleep1", "sleep2"}
                /\ worker'[w].pc \in {"sleep1", "sleep2", "ack"}
                /\ worker[w].job.job_type = CREATE_SITE
                /\ worker[w].job.tenant_id = t
      ]_vars

\* C23 witness: a BACKUP_SITE job has been run to COMPLETED and its tenant is
\* still PROVISIONING, as it was before the job.
C23_Witness ==
    \E w \in Workers :
        /\ worker[w].pc = "ack" /\ worker[w].result = "completed"
        /\ worker[w].job.job_type = BACKUP_SITE
        /\ jobs[worker[w].msg].status = COMPLETED
        /\ Len(jobs) = 1
        /\ tenant_status[worker[w].job.tenant_id] = TENANT_PROVISIONING

\* ------------------------------------------------------------ the API layer
\* The caller of a request: its current tenant and its role in that tenant
\* (NONE: no membership of the tenant).
OWNER == "owner"
ADMIN == "admin"
USER == "user"
TenantRole == {OWNER, ADMIN, USER}
Roles == TenantRole \cup {NONE}

\* Pagination: the page and the page size of a list request
Pages == 1..2
Sizes == 1..2
skip(page, size) == (page - 1) * size

\* get_current_tenant: the caller must be a member of the current tenant
get_current_tenant(role) == role \in TenantRole

\* mutant of require_role: every member passes
require_role_AnyMember(role, allowed_roles) == role \in TenantRole

require_role(role, allowed_roles) == role \in allowed_roles

Denied(result) ==
    /\ Respond(result)
    /\ UNCHANGED <<jobs, tenant_status, queue, worker, cancelled, sso>>

\* the dependencies of the create, retry and cancel routes
Writer(role, handler) ==
    IF ~get_current_tenant(role) THEN Denied("InvalidTenant")
    ELSE IF ~require_role(role, {OWNER, ADMIN}) THEN Denied("Forbidden")
    ELSE handler

api_create_job(ct, role, jt, published) ==
    Writer(role, create_job(ct, jt, published))

api_retry_job(ct, role, j, published) ==
    Writer(role, retry_job(ct, j, published))

api_cancel_job(ct, role, j) == Writer(role, cancel_job(ct, j))

\* the get route: any member; an unknown job is NotFoundError (404), a job
\* of another tenant the HTTPException the handler's "except Exception"
\* turns into a 500
api_get_job(ct, role, j) ==
    /\ IF ~get_current_tenant(role) THEN Respond("InvalidTenant")
       ELSE IF ~Exists(j) THEN Respond("NotFound")
       ELSE IF ~OwnedBy(jobs[j], ct) THEN Respond("JobNotFound")
       ELSE resp' = [result |-> "ok", data |-> <<jobs[j]>>] /\ Event
    /\ UNCHANGED <<jobs, tenant_status, queue, worker, cancelled, sso>>

\* ProvisioningService.list_jobs: the jobs of the tenant, newest first (job
\* ids grow with created_at), then offset and limit
list_jobs(tenant_id, limit, offset) ==
    LET newest == [i \in 1..Len(jobs) |-> Len(jobs) + 1 - i]
        mine(j) == jobs[j].tenant_id = tenant_id
        ids == SelectSeq(newest, mine)
        last == IF offset + limit < Len(ids) THEN offset + limit ELSE Len(ids)
    IN  IF last <= offset THEN <<>>
        ELSE [i \in 1..(last - offset) |-> jobs[ids[offset + i]]]

api_list_jobs(ct, role, page, size) ==
    /\ IF ~get_current_tenant(role) THEN Respond("InvalidTenant")
       ELSE resp' = [result |-> "ok",
                     data |-> list_jobs(ct, size, skip(page, size))]
            /\ Event
    /\ UNCHANGED <<jobs, tenant_status, queue, worker, cancelled, sso>>

\* The requests of the API with callers of every role and tenant.  A handler
\* of the API reads and writes the jobs table and the queue only, so the
\* worker is left out: a job gets FAILED by a cancel here.
NextApi ==
    \/ \E t \in Creators, r \in Roles, jt \in JobType, p \in BOOLEAN :
           api_create_job(t, r, jt, p)
    \/ \E t \in Tenants, r \in Roles, j \in JobIds, p \in BOOLEAN :
           api_retry_job(t, r, j, p)
    \/ \E t \in Tenants, r \in Roles, j \in JobIds : api_cancel_job(t, r, j)
    \/ \E t \in Tenants, r \in Roles, j \in JobIds : api_get_job(t, r, j)
    \/ \E t \in Tenants, r \in Roles, pg \in Pages, sz \in Sizes :
           api_list_jobs(t, r, pg, sz)

ApiSpec == Init /\ [][NextApi]_vars

\* C24: create, retry and cancel take effect only for a caller whose role in
\* the current tenant is owner or admin: any other caller is rejected, no job
\* is created or changed and no message is published; a member of any role
\* may list jobs and get a job of the tenant.
C24_WritesNeedOwnerOrAdmin ==
    [][nevents' # nevents => \A ct \in Tenants, role \in Roles :
        /\ (role \notin {OWNER, ADMIN}
            /\ \/ \E jt \in JobType, p \in BOOLEAN : api_create_job(ct, role, jt, p)
               \/ \E j \in JobIds, p \in BOOLEAN : api_retry_job(ct, role, j, p)
               \/ \E j \in JobIds : api_cancel_job(ct, role, j))
           => /\ resp'.result \in {"Forbidden", "InvalidTenant"}
              /\ resp'.data = <<>>
              /\ jobs' = jobs /\ queue' = queue
              /\ tenant_status' = tenant_status /\ worker' = worker
        /\ \A j \in JobRange :
             (role \in TenantRole /\ jobs[j].tenant_id = ct
              /\ api_get_job(ct, role, j))
             => resp' = [result |-> "ok", data |-> <<jobs[j]>>]
        /\ \A pg \in Pages, sz \in Sizes :
             (role \in TenantRole /\ api_list_jobs(ct, role, pg, sz))
             => resp'.result = "ok"]_vars

\* a plain user asked for a retry of the tenant's cancelled job and was
\* refused: the job is still FAILED and only its first message was published
C24_Witness ==
    /\ resp.result = "Forbidden"
    /\ Len(jobs) = 1 /\ jobs[1].status = FAILED
    /\ queue[1] = 1 /\ nevents = 3

\* C25: get, retry and cancel of a job of another tenant than the caller's
\* current tenant answer with an error, return no job data, change no job and
\* publish nothing; list returns jobs of the caller's tenant only.
C25_TenantIsolation ==
    [][nevents' # nevents => \A ct \in Tenants, role \in Roles :
        /\ \A j \in JobRange :
             (jobs[j].tenant_id # ct
              /\ \/ api_get_job(ct, role, j)
                 \/ \E p \in BOOLEAN : api_retry_job(ct, role, j, p)
                 \/ api_cancel_job(ct, role, j))
             => /\ resp'.result # "ok"
                /\ resp'.data = <<>>
                /\ jobs' = jobs /\ queue' = queue
        /\ \A pg \in Pages, sz \in Sizes :
             api_list_jobs(ct, role, pg, sz)
             => \A i \in DOMAIN resp'.data : resp'.data[i].tenant_id = ct]_vars

\* an owner of t2 asked for the failed job of t1 and got the error; the
\* job is untouched
C25_Witness ==
    /\ resp.result = "JobNotFound"
    /\ Len(jobs) = 2
    /\ jobs[1].tenant_id = "t1" /\ jobs[2].tenant_id = "t2"
    /\ jobs[1].status = PENDING /\ jobs[2].status = PENDING

\* the handler w holds a session object of job j (it loaded the job and has
\* not acknowledged its message)
Holds(w, j) == worker[w].msg = j /\ worker[w].job.status # "none"

\* job j is RUNNING and no handler is executing it: the handler that
\* committed the RUNNING transition was killed
Orphaned(j) == jobs[j].status = RUNNING /\ \A w \in Workers : ~Holds(w, j)

\* C26: a job left RUNNING by a crashed worker stays RUNNING: every later
\* delivery of its message is skipped by the guard, every RetryJob is
\* refused with ValidationError, and only CancelJob changes its status.
C26_OrphanedRunningStays ==
    [][\A j \in JobRange : Orphaned(j) =>
        /\ jobs'[j].status # RUNNING
           => /\ nevents' # nevents /\ resp'.result = "ok"
              /\ jobs'[j] = CancelWrite(jobs[j])
        /\ jobs'[j].status = RUNNING => jobs'[j] = jobs[j] /\ Orphaned(j)'
        /\ \A w \in Workers :
             (worker[w].msg = j /\ worker[w].pc = "get_job" /\ GetJob(w))
             => worker'[w].pc = "ack" /\ worker'[w].result = "skipped"
        /\ \A ct \in Tenants, p \in BOOLEAN :
             (OwnedBy(jobs[j], ct) /\ retry_job(ct, j, p))
             => /\ resp'.result = "ValidationError"
                /\ jobs' = jobs /\ queue' = queue]_vars

\* the worker was killed after the RUNNING commit, the redelivered message
\* was skipped and acknowledged, a RetryJob was refused: the job is RUNNING
C26_Witness ==
    /\ Len(jobs) = 1 /\ jobs[1].status = RUNNING
    /\ \A w \in Workers : worker[w].pc = "idle"
    /\ \A b \in Bodies : queue[b] = 0
    /\ resp.result = "ValidationError" /\ nevents = 3

\* ------------------------------------------------------------ Job Store failures
\* A call to the Job Store outside the try block raises: db.get of the job
\* (line 28), db.get of the tenant (line 43) or the commit of the RUNNING
\* transition (line 47).  Nothing of the session is committed.
StoreFailure(w) ==
    /\ worker[w].pc \in {"get_job", "get_tenant", "commit_running"}
    /\ job_id_of(worker[w].msg) # -1
    /\ Rejected(w)

\* The unit of work (or a commit inside the try block) raises and the commit
\* of the except block (line 86) raises as well.
FailureCommitFails(w) ==
    /\ worker[w].pc \in {"sleep1", "sleep2"}
    /\ Rejected(w)

RejectStep(w) == StoreFailure(w) \/ FailureCommitFails(w)

\* The orchestrator with a Job Store that may fail under the worker: jobs are
\* created and cancelled, delivered and run; no handler is killed.
NextStoreFailure ==
    \/ \E t \in Creators, jt \in JobType, p \in BOOLEAN : create_job(t, jt, p)
    \/ \E t \in Tenants, j \in JobIds : cancel_job(t, j)
    \/ \E w \in Workers, j \in Bodies : Receive(w, j)
    \/ \E w \in Workers : HandlerStep(w)
    \/ \E w \in Workers, e \in ErrDetails : Fail(w, e)
    \/ \E w \in Workers : StoreFailure(w)
    \/ \E w \in Workers : FailureCommitFails(w)

StoreFailureSpec == Init /\ [][NextStoreFailure]_vars

\* the effect of a rejection on the broker and the store: the delivery of w
\* is gone, nothing else is in flight more or less, no row is written
RejectedWithoutRequeue(w) ==
    /\ queue' = queue
    /\ \A b \in Bodies :
         InFlight(b)' = IF b = worker[w].msg THEN InFlight(b) - 1
                                             ELSE InFlight(b)
    /\ jobs' = jobs /\ tenant_status' = tenant_status

\* C27 as stated: after the rejection the job is PENDING or RUNNING
C27_AsClaimed ==
    [][\A w \in Workers : RejectStep(w)
        => /\ RejectedWithoutRequeue(w)
           /\ jobs'[worker[w].msg].status \in {PENDING, RUNNING}]_vars

\* C27: when the load, the commit of the RUNNING transition or the commit of
\* the failure handler raises, the message is rejected without requeue: it
\* is neither in the queue nor with a handler afterwards, no message comes
\* back to the queue other than by a publish of the Dispatcher, and the job
\* and the tenant keep what was committed last (the status the job had, which
\* is any of the four: a load can fail for a job of any status, a FAILED job
\* is accepted by the guard, and a cancel may have been committed meanwhile).
C27_RejectedWithoutRequeue ==
    [][/\ \A w \in Workers : RejectStep(w) => RejectedWithoutRequeue(w)
       /\ \A w \in Workers :
            (StoreFailure(w) /\ worker[w].pc # "get_job")
            => jobs'[worker[w].msg].status = worker[w].seen
               \/ cancelled[worker[w].msg] # "no"
       /\ \A b \in Bodies : queue'[b] > queue[b] => nevents' # nevents]_vars

\* the commit of the failure handler raised: the job is left RUNNING, its
\* message is gone and no handler has it
C27_Witness ==
    /\ Len(jobs) = 1 /\ jobs[1].status = RUNNING
    /\ nevents = 1
    /\ \A w \in Workers : worker[w].pc = "idle"
    /\ \A b \in Bodies : queue[b] = 0

\* ------------------------------------------------------------ fair scheduling
\* The orchestrator without killed handlers and without Job Store failures:
\* the Dispatcher creates, cancels and retries, the unit of work may raise.
\* The broker delivers a ready message when a consumer has room for it and
\* the event loop runs every handler that is ready.
NextFair ==
    \/ \E t \in Creators, jt \in JobType, p \in BOOLEAN : create_job(t, jt, p)
    \/ \E t \in Tenants, j \in JobIds, p \in BOOLEAN : retry_job(t, j, p)
    \/ \E t \in Tenants, j \in JobIds : cancel_job(t, j)
    \/ \E w \in Workers, j \in Bodies : Receive(w, j)
    \/ \E w \in Workers : HandlerStep(w)
    \/ \E w \in Workers, e \in ErrDetails : Fail(w, e)

FairSpec ==
    /\ Init /\ [][NextFair]_vars
    /\ \A b \in Bodies : WF_vars(\E w \in Workers : Receive(w, b))
    /\ \A w \in Workers : WF_vars(HandlerStep(w))

\* handler w is executing a job it found PENDING
DeliveredPending(w) ==
    /\ worker[w].pc \in {"get_tenant", "commit_running", "sleep1", "sleep2"}
    /\ worker[w].seen = PENDING

\* C28: with fair scheduling, no killed handler and no Job Store failure, a
\* message delivered for a PENDING job is acknowledged in the end and the
\* job gets COMPLETED or FAILED: the handler leaves the execution only by a
\* commit that stores COMPLETED or FAILED, keeps the message until then, and
\* in the end no message is ready or unacknowledged.  No message returns to
\* the queue: the queue grows by a publish of the Dispatcher only.
C28_DeliveredPendingTerminates ==
    /\ [][/\ \A w \in Workers :
               (DeliveredPending(w) /\ ~DeliveredPending(w)')
               => /\ worker'[w].pc = "ack" /\ worker'[w].msg = worker[w].msg
                  /\ worker'[w].result \in {"completed", "failed"}
                  /\ jobs'[worker[w].msg].status \in {COMPLETED, FAILED}
          /\ \A w \in Workers :
               (worker[w].pc = "ack" /\ worker'[w] # worker[w])
               => worker'[w] = Idle /\ queue' = queue
          /\ \A b \in Bodies : queue'[b] > queue[b] => nevents' # nevents
         ]_vars
    /\ <>[](\A b \in Bodies : InFlight(b) = 0)

\* a job was delivered as PENDING, executed and acknowledged while the
\* Dispatcher cancelled and retried it
C28_Witness ==
    /\ Len(jobs) = 1 /\ nevents = 3
    /\ jobs[1].status = COMPLETED
    /\ cancelled[1] = "no" /\ resp.result = "ok"
    /\ \A b \in Bodies : InFlight(b) = 0

\* C29: when a CREATE_SITE job is executed for a tenant that is ACTIVE, the
\* commit of the RUNNING transition sets the tenant to PROVISIONING; during
\* the execution the tenant gets ACTIVE again only by the COMPLETED commit of
\* that execution, and after its FAILED commit the tenant is PROVISIONING.
C29_ReexecutionResetsTenant ==
    [][\A w \in Workers :
        LET t == worker[w].job.tenant_id IN
        (worker[w].job.status # "none"
            /\ worker[w].job.job_type = CREATE_SITE
            /\ worker[w].t_seen = TENANT_ACTIVE)
        => /\ (worker[w].pc = "commit_running" /\ worker'[w].pc = "sleep1")
              => tenant_status'[t] = TENANT_PROVISIONING
           /\ (worker[w].pc \in {"sleep1", "sleep2"}
                 /\ worker'[w].pc = "ack" /\ worker'[w].result = "failed")
              => tenant_status'[t] = TENANT_PROVISIONING
           /\ (worker[w].pc \in {"sleep1", "sleep2"}
                 /\ tenant_status[t] # TENANT_ACTIVE
                 /\ tenant_status'[t] = TENANT_ACTIVE)
              => worker'[w].pc = "ack" /\ worker'[w].result = "completed"
      ]_vars

\* ------------------------------------------------------------ SSO service
\* generate_erpnext_token: a tenant without erpnext_site_url is refused;
\* otherwise a fresh random token is stored with the caller's ids (hset) and
\* a time to live (expire).
generate_erpnext_token(user_id, tenant_id, provisioned) ==
    /\ sso.ncalls < MaxEvents
    /\ IF provisioned
         THEN \E token \in Tokens \ sso.issued :
                sso' = [sso EXCEPT !.redis[token] = <<user_id, tenant_id>>,
                                   !.issued = @ \cup {token},
                                   !.ncalls = @ + 1]
         ELSE sso' = [sso EXCEPT !.ncalls = @ + 1]
    /\ UNCHANGED <<jobs, tenant_status, queue, worker, resp, nevents, cancelled>>

\* SSO_TOKEN_TTL seconds after the expire, Redis drops the key
Expired(token) ==
    /\ sso.redis[token] # NoTokenData
    /\ sso' = [sso EXCEPT !.redis[token] = NoTokenData]
    /\ UNCHANGED <<jobs, tenant_status, queue, worker, resp, nevents, cancelled>>

\* validate_token up to its first await: hgetall returns the stored hash
HGetAll(v, token) ==
    /\ sso.call[v].pc = "idle"
    /\ sso.ncalls < MaxEvents
    /\ sso' = [sso EXCEPT !.call[v] = [pc |-> "hgetall", token |-> token,
                                       token_data |-> sso.redis[token],
                                       result |-> NONE],
                          !.ncalls = @ + 1]
    /\ UNCHANGED <<jobs, tenant_status, queue, worker, resp, nevents, cancelled>>

\* the rest of validate_token: an empty hash raises; otherwise the key is
\* deleted and the ids of the hash that was read are returned
Delete(v) ==
    /\ sso.call[v].pc = "hgetall"
    /\ LET k == sso.call[v].token IN
       IF sso.call[v].token_data = NoTokenData
         THEN sso' = [sso EXCEPT !.call[v].pc = "idle",
                                 !.call[v].result = INVALID_TOKEN]
         ELSE sso' = [sso EXCEPT !.redis[k] = NoTokenData,
                                 !.succeeded[k] = @ + 1,
                                 !.call[v].pc = "idle",
                                 !.call[v].result = "ok"]
    /\ UNCHANGED <<jobs, tenant_status, queue, worker, resp, nevents, cancelled>>

NextSso ==
    \/ \E u \in Users, t \in Tenants, p \in BOOLEAN :
           generate_erpnext_token(u, t, p)
    \/ \E k \in Tokens : Expired(k)
    \/ \E v \in Validators, k \in Tokens : HGetAll(v, k)
    \/ \E v \in Validators : Delete(v)

SsoSpec == Init /\ [][NextSso]_vars

\* C30: for each token at most one call of validate_token succeeds, also
\* when two calls for the token run at the same time; a call ends with the
\* ids or with "Invalid or expired SSO token".
C30_OneTimeUse ==
    /\ \A k \in Tokens : sso.succeeded[k] <= 1
    /\ \A v \in Validators : sso.call[v].result \in {NONE, "ok", INVALID_TOKEN}

====
